---------------------------- MODULE Spec2Model ----------------------------
(* Model of blocks/image-link/image-link.js: the Image Link block.          *)
(*                                                                          *)
(* The DOM is a heap of nodes addressed by id (their index in `heap`), so   *)
(* that element identity, cloning and in-place mutation are observable.     *)
(* Strings (text, attribute values) are sequences of one-character strings, *)
(* so that String.prototype.trim and textContent are computed, not assumed. *)
(* URL-valued attributes hold the absolute URL the `src` / `href` getters   *)
(* return; an anchor without an href attribute reads href = ''.             *)
EXTENDS Integers, Sequences, FiniteSets, TLC

(***************************************************************************)
(* Bounds of the model                                                     *)
(***************************************************************************)
\* decorate calls made on the same block
MaxCalls == 3
\* rows (element children) of the authored block
MaxRows == 5

(***************************************************************************)
(* JavaScript values                                                       *)
(***************************************************************************)
\* undefined / null where a node is expected (no node has id 0)
Undefined == 0
\* undefined where a string is expected: no string has a multi-letter element
UndefinedStr == <<"undefined">>

Truthy(s) == s # <<>> /\ s # UndefinedStr

\* a || b on strings
OrElse(a, b) == IF Truthy(a) THEN a ELSE b

WhiteSpace == {" ", "\t", "\n"}

RECURSIVE TrimStart(_)
TrimStart(s) ==
  IF s # <<>> /\ Head(s) \in WhiteSpace THEN TrimStart(Tail(s)) ELSE s

RECURSIVE TrimEnd(_)
TrimEnd(s) ==
  IF s # <<>> /\ s[Len(s)] \in WhiteSpace
    THEN TrimEnd(SubSeq(s, 1, Len(s) - 1))
    ELSE s

\* String.prototype.trim
Trim(s) == TrimEnd(TrimStart(s))

(***************************************************************************)
(* String literals of the source                                           *)
(***************************************************************************)
ErrorText ==
  <<"I","m","a","g","e"," ","L","i","n","k",":"," ","P","l","e","a","s","e",
    " ","a","d","d"," ","a","t"," ","l","e","a","s","t"," ","o","n","e"," ",
    "i","m","a","g","e">>
MobileMedia ==
  <<"(","m","a","x","-","w","i","d","t","h",":"," ","7","6","7","p","x",")">>
DesktopMedia ==
  <<"(","m","i","n","-","w","i","d","t","h",":"," ","7","6","8","p","x",")">>
Lazy == <<"l","a","z","y">>
Self == <<"_","s","e","l","f">>
Blank == <<"_","b","l","a","n","k">>
NoOpener == <<"n","o","o","p","e","n","e","r"," ","n","o","r","e","f","e","r","r","e","r">>

(***************************************************************************)
(* DOM operations used by the source                                       *)
(***************************************************************************)
NoAttrs == [a \in {} |-> <<>>]

\* document.createElement(tag): the new element has id Len(h) + 1
CreateElement(h, tag) ==
  Append(h, [tag |-> tag, attrs |-> NoAttrs, text |-> <<>>, kids |-> <<>>])

\* a reflected string property (src, alt, title, href): '' when not set
Prop(h, id, name) ==
  IF name \in DOMAIN h[id].attrs THEN h[id].attrs[name] ELSE <<>>

\* el.name = value
SetProp(h, id, name, value) ==
  [h EXCEPT ![id].attrs = (name :> value) @@ @]

\* el.children: the element children, text nodes left out
Children(h, id) == SelectSeq(h[id].kids, LAMBDA k : h[k].tag # "#text")

\* rows[i], 0-based; undefined past the end
At(rows, i) == IF i < Len(rows) THEN rows[i + 1] ELSE Undefined

\* the nodes below the forest `ids`, in document order
RECURSIVE Descendants(_, _)
Descendants(h, ids) ==
  IF ids = <<>> THEN <<>>
  ELSE <<Head(ids)>> \o Descendants(h, h[Head(ids)].kids)
                     \o Descendants(h, Tail(ids))

\* el.querySelector(tag): the first descendant (never el itself) with the tag
QuerySelector(h, id, tag) ==
  LET hits == SelectSeq(Descendants(h, h[id].kids), LAMBDA k : h[k].tag = tag)
  IN  IF hits = <<>> THEN Undefined ELSE Head(hits)

\* el?.querySelector(tag)
OptQuerySelector(h, id, tag) ==
  IF id = Undefined THEN Undefined ELSE QuerySelector(h, id, tag)

RECURSIVE ConcatText(_, _)
ConcatText(h, ids) ==
  IF ids = <<>> THEN <<>>
  ELSE (IF h[Head(ids)].tag = "#text" THEN h[Head(ids)].text ELSE <<>>)
       \o ConcatText(h, Tail(ids))

\* el.textContent (getter): the text of all descendant text nodes
TextContent(h, id) == ConcatText(h, Descendants(h, h[id].kids))

\* el?.textContent.trim()
OptTrimmedText(h, id) ==
  IF id = Undefined THEN UndefinedStr ELSE Trim(TextContent(h, id))

\* mutant: assigning '' leaves the children in place
SetTextContentKeepsOnEmpty(h, id, s) ==
  IF s = <<>> THEN h
  ELSE LET h1 == Append(h, [tag |-> "#text", attrs |-> NoAttrs,
                            text |-> s, kids |-> <<>>])
       IN  [h1 EXCEPT ![id].kids = <<Len(h1)>>]

\* mutant: the text is appended after the children instead of replacing them
SetTextContentAppends(h, id, s) ==
  IF s = <<>> THEN [h EXCEPT ![id].kids = <<>>]
  ELSE LET h1 == Append(h, [tag |-> "#text", attrs |-> NoAttrs,
                            text |-> s, kids |-> <<>>])
       IN  [h1 EXCEPT ![id].kids = Append(@, Len(h1))]

\* el.textContent = s: all children are removed; a non-empty s becomes the
\* single text child
SetTextContent(h, id, s) ==
  IF s = <<>> THEN [h EXCEPT ![id].kids = <<>>]
  ELSE LET h1 == Append(h, [tag |-> "#text", attrs |-> NoAttrs,
                            text |-> s, kids |-> <<>>])
       IN  [h1 EXCEPT ![id].kids = <<Len(h1)>>]

\* parent.appendChild(child): child leaves its old parent, if any
AppendChild(h, parent, child) ==
  LET h1 == [i \in 1..Len(h) |->
               [h[i] EXCEPT !.kids = SelectSeq(@, LAMBDA k : k # child)]]
  IN  [h1 EXCEPT ![parent].kids = Append(@, child)]

\* el.cloneNode(true): a deep copy without parent; the copy has id Len(h) + 1
RECURSIVE CloneNode(_, _), CloneKids(_, _, _)
CloneNode(h, id) ==
  LET h1 == Append(h, [h[id] EXCEPT !.kids = <<>>])
  IN  CloneKids(h1, Len(h1), h[id].kids)
CloneKids(h, parent, ks) ==
  IF ks = <<>> THEN h
  ELSE LET copy == Len(h) + 1
           h1   == CloneNode(h, Head(ks))
           h2   == [h1 EXCEPT ![parent].kids = Append(@, copy)]
       IN  CloneKids(h2, parent, Tail(ks))

(***************************************************************************)
(* createResponsivePicture                                                 *)
(***************************************************************************)
\* mutant: the desktop source is emitted before the mobile source
ResponsiveSourcesDesktopFirst(h, picture, desktopImg, mobileImg, alt) ==
  LET h1 == CreateElement(h, "source")
      desktopSource == Len(h1)
      h2 == SetProp(h1, desktopSource, "media", DesktopMedia)
      h3 == SetProp(h2, desktopSource, "srcset", Prop(h2, desktopImg, "src"))
      h4 == AppendChild(h3, picture, desktopSource)
      h5 == CreateElement(h4, "source")
      mobileSource == Len(h5)
      h6 == SetProp(h5, mobileSource, "media", MobileMedia)
      h7 == SetProp(h6, mobileSource, "srcset", Prop(h6, mobileImg, "src"))
      h8 == AppendChild(h7, picture, mobileSource)
      h9 == CreateElement(h8, "img")
      img == Len(h9)
      h10 == SetProp(h9, img, "src", Prop(h9, desktopImg, "src"))
      h11 == SetProp(h10, img, "alt",
                     OrElse(alt, OrElse(Prop(h10, desktopImg, "alt"), <<>>)))
      h12 == SetProp(h11, img, "loading", Lazy)
  IN  AppendChild(h12, picture, img)

\* lines 23-40: two conditional sources, then a new fallback img
ResponsiveSources(h, picture, desktopImg, mobileImg, alt) ==
  LET h1 == CreateElement(h, "source")
      mobileSource == Len(h1)
      h2 == SetProp(h1, mobileSource, "media", MobileMedia)
      h3 == SetProp(h2, mobileSource, "srcset", Prop(h2, mobileImg, "src"))
      h4 == AppendChild(h3, picture, mobileSource)
      h5 == CreateElement(h4, "source")
      desktopSource == Len(h5)
      h6 == SetProp(h5, desktopSource, "media", DesktopMedia)
      h7 == SetProp(h6, desktopSource, "srcset", Prop(h6, desktopImg, "src"))
      h8 == AppendChild(h7, picture, desktopSource)
      h9 == CreateElement(h8, "img")
      img == Len(h9)
      h10 == SetProp(h9, img, "src", Prop(h9, desktopImg, "src"))
      h11 == SetProp(h10, img, "alt",
                     OrElse(alt, OrElse(Prop(h10, desktopImg, "alt"), <<>>)))
      h12 == SetProp(h11, img, "loading", Lazy)
  IN  AppendChild(h12, picture, img)

\* mutant: the source img itself is used, not a copy of it
FallbackCopyNoClone(h, fallbackImg) ==
  [heap |-> h, img |-> fallbackImg]

\* line 43: the element the single-image branch works on
FallbackCopy(h, fallbackImg) ==
  [heap |-> CloneNode(h, fallbackImg), img |-> Len(h) + 1]

\* lines 43-46: a copy of the one resolved source
SingleImage(h, picture, fallbackImg, alt) ==
  LET c  == FallbackCopy(h, fallbackImg)
      h1 == SetProp(c.heap, c.img, "alt",
                    OrElse(alt, OrElse(Prop(c.heap, c.img, "alt"), <<>>)))
      h2 == SetProp(h1, c.img, "loading", Lazy)
  IN  AppendChild(h2, picture, c.img)

\* line 17: the early return of the empty picture
NoFallback(fallbackImg) == fallbackImg = Undefined

\* mutant: the URLs are not compared
BothAndDifferNoUrlTest(h, desktopImg, mobileImg) ==
  /\ desktopImg # Undefined
  /\ mobileImg # Undefined

\* line 22
BothAndDiffer(h, desktopImg, mobileImg) ==
  /\ desktopImg # Undefined
  /\ mobileImg # Undefined
  /\ Prop(h, desktopImg, "src") # Prop(h, mobileImg, "src")

\* the result: the heap after the call, the returned picture, and whether a
\* TypeError was thrown: fallbackImg.cloneNode (line 43) is the one member
\* read without a guard of its own, covered by the return of line 18
createResponsivePicture(h, desktopPicture, mobilePicture, alt) ==
  LET h0 == CreateElement(h, "picture")
      picture == Len(h0)
      desktopImg == OptQuerySelector(h0, desktopPicture, "img")
      mobileImg == OptQuerySelector(h0, mobilePicture, "img")
      fallbackImg == IF desktopImg # Undefined THEN desktopImg ELSE mobileImg
  IN  IF NoFallback(fallbackImg)
        THEN [heap |-> h0, ret |-> picture, threw |-> FALSE]
      ELSE IF BothAndDiffer(h0, desktopImg, mobileImg)
        THEN [heap |-> ResponsiveSources(h0, picture, desktopImg, mobileImg, alt),
              ret |-> picture, threw |-> FALSE]
      ELSE IF fallbackImg = Undefined
        THEN [heap |-> h0, ret |-> Undefined, threw |-> TRUE]
      ELSE [heap |-> SingleImage(h0, picture, fallbackImg, alt),
            ret |-> picture, threw |-> FALSE]

(***************************************************************************)
(* createLink                                                              *)
(***************************************************************************)
\* lines 65-67
SetTitle(h, link, title) ==
  IF Truthy(title) THEN SetProp(h, link, "title", title) ELSE h

\* mutant: rel is set for every target other than _self
SetRelUnlessSelf(h, link, target) ==
  IF target # Self THEN SetProp(h, link, "rel", NoOpener) ELSE h

\* lines 70-72
SetRel(h, link, target) ==
  IF target = Blank THEN SetProp(h, link, "rel", NoOpener) ELSE h

createLink(h, href, title, target, picture) ==
  LET h0 == CreateElement(h, "a")
      link == Len(h0)
      h1 == SetProp(h0, link, "href", href)
      h2 == SetProp(h1, link, "target", target)
      h3 == SetTitle(h2, link, title)
      h4 == SetRel(h3, link, target)
  IN  [heap |-> AppendChild(h4, link, picture), ret |-> link]

(***************************************************************************)
(* decorate                                                                *)
(***************************************************************************)
\* the block element
Block == 1

\* line 101
DesktopPictureOf(h, rows) == OptQuerySelector(h, At(rows, 0), "picture")
\* mutant: the mobile picture is read from the wrong row
MobilePictureOfRowTwo(h, rows) == OptQuerySelector(h, At(rows, 2), "picture")

\* line 102
MobilePictureOf(h, rows) == OptQuerySelector(h, At(rows, 1), "picture")
\* line 103
AltOf(h, rows) == OptTrimmedText(h, At(rows, 2))
\* line 104
LinkElementOf(h, rows) == OptQuerySelector(h, At(rows, 3), "a")
\* line 107
LinkTitleOf(h, linkElement) ==
  IF linkElement = Undefined THEN <<>>
  ELSE OrElse(Prop(h, linkElement, "title"), <<>>)
\* mutant: the text of row 4 is not trimmed
LinkTargetOfUntrimmed(h, rows) ==
  OrElse(IF At(rows, 4) = Undefined THEN UndefinedStr
         ELSE TextContent(h, At(rows, 4)), Self)

\* line 109
LinkTargetOf(h, rows) == OrElse(OptTrimmedText(h, At(rows, 4)), Self)

\* line 112
MissingImage(desktopPicture, mobilePicture) ==
  desktopPicture = Undefined /\ mobilePicture = Undefined

\* mutant: the href is not tested
HasLinkAnyAnchor(h, linkElement) == linkElement # Undefined

\* line 128
HasLink(h, linkElement) ==
  linkElement # Undefined /\ Truthy(Prop(h, linkElement, "href"))

\* the heap after decorate(block), with the call's locals and its outcome:
\* "error" (returned at line 114), "rendered" (ran to the end), or "threw"
decorate(h, block) ==
  LET rows == Children(h, block)
      desktopPicture == DesktopPictureOf(h, rows)
      mobilePicture == MobilePictureOf(h, rows)
      alt == AltOf(h, rows)
      linkElement == LinkElementOf(h, rows)
      linkTitle == LinkTitleOf(h, linkElement)
      linkTarget == LinkTargetOf(h, rows)
      locals == [rows |-> rows, desktopPicture |-> desktopPicture,
                 mobilePicture |-> mobilePicture, alt |-> alt,
                 linkElement |-> linkElement, linkTitle |-> linkTitle,
                 linkTarget |-> linkTarget, picture |-> Undefined,
                 link |-> Undefined, outcome |-> "none"]
  IN  IF MissingImage(desktopPicture, mobilePicture)
        THEN [heap |-> SetTextContent(h, block, ErrorText),
              locals |-> [locals EXCEPT !.outcome = "error"]]
      ELSE
        LET h1 == SetTextContent(h, block, <<>>)
            p  == createResponsivePicture(h1, desktopPicture, mobilePicture, alt)
        IN  IF p.threw
              THEN [heap |-> p.heap,
                    locals |-> [locals EXCEPT !.outcome = "threw"]]
            ELSE IF HasLink(p.heap, linkElement)
              THEN LET l == createLink(p.heap, Prop(p.heap, linkElement, "href"),
                                       linkTitle, linkTarget, p.ret)
                   IN  [heap |-> AppendChild(l.heap, block, l.ret),
                        locals |-> [locals EXCEPT !.picture = p.ret,
                                                  !.link = l.ret,
                                                  !.outcome = "rendered"]]
            ELSE [heap |-> AppendChild(p.heap, block, p.ret),
                  locals |-> [locals EXCEPT !.picture = p.ret,
                                            !.outcome = "rendered"]]

(***************************************************************************)
(* Authored blocks: the markup the block is handed (lines 82-89)           *)
(***************************************************************************)
E(tag, attrs, sub) == [tag |-> tag, attrs |-> attrs, text |-> <<>>, sub |-> sub]
T(text) == [tag |-> "#text", attrs |-> NoAttrs, text |-> text, sub |-> <<>>]

\* <div><div> content </div></div>
Row(content) == E("div", NoAttrs, <<E("div", NoAttrs, content)>>)

RECURSIVE Build(_, _, _), BuildAll(_, _, _)
Build(h, parent, t) ==
  LET id == Len(h) + 1
      h1 == Append(h, [tag |-> t.tag, attrs |-> t.attrs,
                       text |-> t.text, kids |-> <<>>])
      h2 == [h1 EXCEPT ![parent].kids = Append(@, id)]
  IN  BuildAll(h2, id, t.sub)
BuildAll(h, parent, ts) ==
  IF ts = <<>> THEN h
  ELSE BuildAll(Build(h, parent, Head(ts)), parent, Tail(ts))

UrlD == <<"/","d",".","p","n","g">>
UrlM == <<"/","m",".","p","n","g">>
UrlX == <<"h","t","t","p","s",":","/","/","x">>
Eager == <<"e","a","g","e","r">>

Img(src, alt) ==
  E("img", ("src" :> src) @@ ("alt" :> alt) @@ ("loading" :> Eager), <<>>)
ImgNoAlt(src) == E("img", ("src" :> src), <<>>)
Picture(sub) == E("picture", NoAttrs, sub)
Anchor(attrs) == E("a", attrs, <<T(<<"G","o">>)>>)

DesktopRows ==
  { Row(<<>>),
    Row(<<Picture(<<>>)>>),
    Row(<<Picture(<<Img(UrlD, <<"D","o","g">>)>>)>>),
    Row(<<Picture(<<ImgNoAlt(UrlD)>>)>>),
    Row(<<Img(UrlD, <<"D","o","g">>)>>) }

MobileRows ==
  { Row(<<>>),
    Row(<<Picture(<<>>)>>),
    Row(<<Picture(<<Img(UrlM, <<"M","o">>)>>)>>),
    Row(<<Picture(<<Img(UrlD, <<"M","o">>)>>)>>) }

AltRows ==
  { Row(<<>>),
    Row(<<T(<<" ","\n">>)>>),
    Row(<<T(<<" ","A"," ","c","a","t"," ">>)>>),
    Row(<<Picture(<<Img(UrlM, <<"M","o">>)>>)>>) }

LinkRows ==
  { Row(<<>>),
    Row(<<Anchor(NoAttrs)>>),
    Row(<<Anchor(("title" :> <<"T","i","p">>))>>),
    Row(<<Anchor(("href" :> UrlX))>>),
    Row(<<Anchor(("href" :> UrlX) @@ ("title" :> <<"T","i","p">>))>>) }

TargetRows ==
  { Row(<<>>),
    Row(<<T(<<" ">>)>>),
    Row(<<T(Blank)>>),
    Row(<<T(<<" ">> \o Blank \o <<"\n">>)>>),
    Row(<<T(Self)>>),
    Row(<<T(<<"_","B","L","A","N","K">>)>>),
    Row(<<T(<<"t","o","p">>)>>) }

\* the rows an author may put at (0-based) position i
RowsAt(i) ==
  CASE i = 0 -> DesktopRows
    [] i = 1 -> MobileRows
    [] i = 2 -> AltRows
    [] i = 3 -> LinkRows
    [] i = 4 -> TargetRows
    [] OTHER -> { Row(<<>>) }

RECURSIVE RowSeqs(_)
RowSeqs(n) ==
  IF n = 0 THEN { <<>> }
  ELSE { Append(s, r) : s \in RowSeqs(n - 1), r \in RowsAt(n - 1) }

EmptyBlock ==
  << [tag |-> "div", attrs |-> ("class" :> <<"i","l">>), text |-> <<>>, kids |-> <<>>] >>

Authored(rows) == BuildAll(EmptyBlock, Block, rows)

NoLocals ==
  [rows |-> <<>>, desktopPicture |-> Undefined, mobilePicture |-> Undefined,
   alt |-> UndefinedStr, linkElement |-> Undefined, linkTitle |-> <<>>,
   linkTarget |-> <<>>, picture |-> Undefined, link |-> Undefined,
   outcome |-> "none"]

(***************************************************************************)
(* The state machine: the page calls decorate on the block                 *)
(***************************************************************************)
VARIABLES
  heap,     \* the DOM
  pre,      \* the DOM as the last decorate call found it
  last,     \* the locals and the outcome of the last decorate call
  calls     \* decorate calls made so far

vars == <<heap, pre, last, calls>>

Init ==
  /\ \E n \in 0..MaxRows : \E rows \in RowSeqs(n) : heap = Authored(rows)
  /\ pre = heap
  /\ last = NoLocals
  /\ calls = 0

Decorate ==
  /\ calls < MaxCalls
  /\ LET r == decorate(heap, Block)
     IN  /\ heap' = r.heap
         /\ last' = r.locals
  /\ pre' = heap
  /\ calls' = calls + 1

Next == Decorate

Spec == Init /\ [][Next]_vars


(***************************************************************************)
(* Reading the block a call was given (pre) and the block it left (heap)   *)
(***************************************************************************)
Called == calls >= 1

InRows == Children(pre, Block)

\* the first `tag` element inside input row i (0-based), if any
InRow(i, tag) ==
  IF i < Len(InRows) THEN QuerySelector(pre, InRows[i + 1], tag) ELSE Undefined

\* the img inside the picture of input row i, if any
InImg(i) ==
  IF InRow(i, "picture") = Undefined THEN Undefined
  ELSE QuerySelector(pre, InRow(i, "picture"), "img")

\* the trimmed text of input row i; '' when the row is absent
InText(i) ==
  IF i < Len(InRows) THEN Trim(TextContent(pre, InRows[i + 1])) ELSE <<>>

\* the alt the output img must carry when `srcImg` is the resolved source
ExpectedAlt(srcImg) ==
  IF InText(2) # <<>> THEN InText(2) ELSE Prop(pre, srcImg, "alt")

\* the block holds the error text and nothing else
ErrorShape(h) ==
  /\ Len(h[Block].kids) = 1
  /\ h[h[Block].kids[1]].tag = "#text"
  /\ h[h[Block].kids[1]].text = ErrorText
  /\ h[h[Block].kids[1]].kids = <<>>

ImgKids(h, p) == SelectSeq(h[p].kids, LAMBDA k : h[k].tag = "img")

\* the block holds one picture, or one anchor around one picture, and the
\* picture holds exactly one img
RenderedShape(h) ==
  /\ Len(h[Block].kids) = 1
  /\ LET c == h[Block].kids[1]
     IN  \/ h[c].tag = "picture" /\ Len(ImgKids(h, c)) = 1
         \/ /\ h[c].tag = "a"
            /\ Len(h[c].kids) = 1
            /\ h[h[c].kids[1]].tag = "picture"
            /\ Len(ImgKids(h, h[c].kids[1])) = 1

\* the picture the last call attached, and the anchor around it (if any)
OutChild == heap[Block].kids[1]
OutAnchor == IF heap[OutChild].tag = "a" THEN OutChild ELSE Undefined
OutPicture == IF heap[OutChild].tag = "a" THEN heap[OutChild].kids[1] ELSE OutChild
Rendered == Called /\ last.outcome = "rendered"

BothDiffer ==
  /\ InImg(0) # Undefined
  /\ InImg(1) # Undefined
  /\ Prop(pre, InImg(0), "src") # Prop(pre, InImg(1), "src")

OneOrEqual ==
  /\ InImg(0) # Undefined \/ InImg(1) # Undefined
  /\ ~BothDiffer

ResolvedImg == IF InImg(0) # Undefined THEN InImg(0) ELSE InImg(1)

(***************************************************************************)
(* Claims                                                                  *)
(***************************************************************************)

\* C1: when neither row 0 nor row 1 of the block holds a picture, decorate
\* returns normally and leaves the block with the error text as its only
\* child and no element below it, whatever rows 2, 3 and 4 hold.
C1_MissingImageError ==
  (Called /\ InRow(0, "picture") = Undefined /\ InRow(1, "picture") = Undefined)
    => /\ last.outcome = "error"
       /\ ErrorShape(heap)
       /\ Children(heap, Block) = <<>>

\* a call that found no picture in rows 0 and 1 but an image in the alt row,
\* a link with an href and a link target
C1_Witness ==
  /\ calls = 1
  /\ InRow(0, "picture") = Undefined /\ InRow(1, "picture") = Undefined
  /\ InRow(2, "img") # Undefined
  /\ InRow(3, "a") # Undefined /\ Prop(pre, InRow(3, "a"), "href") # <<>>
  /\ InText(4) = Blank
  /\ ErrorShape(heap)

\* C2: when decorate returns the block is in the error shape or in the
\* rendered shape, whose picture holds exactly one fallback img.
C2_ErrorOrRendered ==
  Called => (ErrorShape(heap) \/ RenderedShape(heap))

\* C3: with an img in both rows and differing URLs the picture holds, in
\* order, source(max-width: 767px, mobile URL), source(min-width: 768px,
\* desktop URL) and an img with the desktop URL, loading lazy and the alt
\* override, else the desktop img's alt, else ''.
C3_TwoSourcesThenFallback ==
  (Rendered /\ BothDiffer) =>
    LET k == heap[OutPicture].kids
    IN  /\ Len(k) = 3
        /\ heap[k[1]].tag = "source"
        /\ heap[k[1]].attrs = ("media" :> MobileMedia)
                              @@ ("srcset" :> Prop(pre, InImg(1), "src"))
        /\ heap[k[2]].tag = "source"
        /\ heap[k[2]].attrs = ("media" :> DesktopMedia)
                              @@ ("srcset" :> Prop(pre, InImg(0), "src"))
        /\ heap[k[3]].tag = "img"
        /\ heap[k[3]].attrs = ("src" :> Prop(pre, InImg(0), "src"))
                              @@ ("alt" :> ExpectedAlt(InImg(0)))
                              @@ ("loading" :> Lazy)
        /\ \A i \in 1..3 : heap[k[i]].kids = <<>>

\* both images, differing URLs, no alt override, a desktop img without alt
\* and a mobile img with one: the fallback alt is ''
C3_Witness ==
  /\ Rendered /\ BothDiffer
  /\ InText(2) = <<>>
  /\ Prop(pre, InImg(0), "alt") = <<>>
  /\ Prop(pre, InImg(1), "alt") # <<>>
  /\ Len(heap[OutPicture].kids) = 3
  /\ Prop(heap, heap[OutPicture].kids[3], "alt") = <<>>

\* C4: with an img in exactly one row, or in both with equal URLs, the
\* picture holds no source and exactly one img, a copy of the resolved
\* source (desktop if present, else mobile) with loading lazy and the alt
\* override, else the source's own alt, else ''.
C4_SingleImage ==
  (Rendered /\ OneOrEqual) =>
    LET k == heap[OutPicture].kids
    IN  /\ Len(k) = 1
        /\ heap[k[1]].tag = "img"
        /\ heap[k[1]].attrs = ("alt" :> ExpectedAlt(ResolvedImg))
                              @@ ("loading" :> Lazy)
                              @@ pre[ResolvedImg].attrs
        /\ heap[k[1]].kids = <<>>

\* both rows hold an img with the same URL and the picture holds one img
C4_Witness ==
  /\ Rendered
  /\ InImg(0) # Undefined /\ InImg(1) # Undefined
  /\ Prop(pre, InImg(0), "src") = Prop(pre, InImg(1), "src")
  /\ Len(heap[OutPicture].kids) = 1
  /\ Prop(heap, heap[OutPicture].kids[1], "alt") = Prop(pre, InImg(0), "alt")

\* C5: an anchor produced by createLink has rel = 'noopener noreferrer' if
\* its target is '_blank', and no rel attribute for every other target.
C5_RelIffBlank ==
  (Rendered /\ last.link # Undefined) =>
    LET a == heap[last.link].attrs
    IN  /\ ("rel" \in DOMAIN a) <=> (a["target"] = Blank)
        /\ ("rel" \in DOMAIN a) => a["rel"] = NoOpener

\* an anchor whose target is neither _blank nor _self, without rel
C5_Witness ==
  /\ Rendered /\ last.link # Undefined
  /\ heap[last.link].attrs["target"] \notin {Blank, Self}
  /\ "rel" \notin DOMAIN heap[last.link].attrs

\* C6: past the validation gate, the block's child is an anchor around the
\* picture iff row 3 holds an anchor with a non-empty href; otherwise the
\* picture is the block's child and the block holds no anchor.
C6_AnchorIffHref ==
  (Called /\ (InRow(0, "picture") # Undefined \/ InRow(1, "picture") # Undefined))
    => /\ Len(heap[Block].kids) = 1
       /\ IF InRow(3, "a") # Undefined /\ Prop(pre, InRow(3, "a"), "href") # <<>>
            THEN /\ heap[OutChild].tag = "a"
                 /\ Len(heap[OutChild].kids) = 1
                 /\ heap[heap[OutChild].kids[1]].tag = "picture"
            ELSE /\ heap[OutChild].tag = "picture"
                 /\ QuerySelector(heap, Block, "a") = Undefined

\* row 3 holds an anchor without href: the picture is the block's child
C6_Witness ==
  /\ Called
  /\ InRow(0, "picture") # Undefined
  /\ InRow(3, "a") # Undefined /\ Prop(pre, InRow(3, "a"), "href") = <<>>
  /\ heap[OutChild].tag = "picture"

\* C7: a produced anchor has the row-3 anchor's href, a target that is the
\* trimmed text of row 4 or '_self' when row 4 is absent or blank, a title
\* only if the row-3 anchor's title is non-empty (then that title), and the
\* picture as its sole child.
C7_AnchorAttributes ==
  (Rendered /\ OutAnchor # Undefined) =>
    LET a == heap[OutAnchor].attrs
        src == InRow(3, "a")
    IN  /\ src # Undefined
        /\ "href" \in DOMAIN a /\ a["href"] = Prop(pre, src, "href")
        /\ "target" \in DOMAIN a
        /\ a["target"] = (IF InText(4) = <<>> THEN Self ELSE InText(4))
        /\ ("title" \in DOMAIN a) <=> (Prop(pre, src, "title") # <<>>)
        /\ ("title" \in DOMAIN a) => a["title"] = Prop(pre, src, "title")
        /\ Len(heap[OutAnchor].kids) = 1
        /\ heap[heap[OutAnchor].kids[1]].tag = "picture"

\* row 4 holds only white space and the row-3 anchor has no title: the
\* anchor has target _self and no title
C7_Witness ==
  /\ Rendered /\ OutAnchor # Undefined
  /\ Len(InRows) = 5
  /\ TextContent(pre, InRows[5]) # <<>>
  /\ InText(4) = <<>>
  /\ heap[OutAnchor].attrs["target"] = Self
  /\ "title" \notin DOMAIN heap[OutAnchor].attrs

\* C8: createResponsivePicture leaves its inputs as they were: the pictures
\* it was given and everything below them are unchanged, and the img it
\* puts in the picture is a new element, never a source img.
C8_InputsNotMutated ==
  Rendered =>
    LET given == SelectSeq(<<last.desktopPicture, last.mobilePicture>>,
                           LAMBDA x : x # Undefined)
        below == given \o Descendants(pre, given)
    IN  /\ \A i \in 1..Len(below) : heap[below[i]] = pre[below[i]]
        /\ \A i \in 1..Len(heap[OutPicture].kids) :
             heap[OutPicture].kids[i] > Len(pre)

\* the single-source path ran with an alt override that differs from the
\* source img's alt, and the source img still has its own alt and loading
C8_Witness ==
  /\ Rendered /\ OneOrEqual
  /\ InText(2) # <<>>
  /\ Prop(pre, ResolvedImg, "alt") # InText(2)
  /\ Prop(heap, ResolvedImg, "alt") = Prop(pre, ResolvedImg, "alt")
  /\ Prop(heap, ResolvedImg, "loading") = Eager
  /\ Prop(heap, heap[OutPicture].kids[1], "alt") = InText(2)

\* C9: after every decorate call the block has at most one element child:
\* none in the error state, otherwise exactly one, a picture or an anchor;
\* no row the call was given is still a child of the block.
C9_AtMostOneChild ==
  Called =>
    LET k == Children(heap, Block)
    IN  /\ Len(k) <= 1
        /\ ErrorShape(heap) => Len(k) = 0
        /\ ~ErrorShape(heap) =>
             (Len(k) = 1 /\ heap[k[1]].tag \in {"picture", "a"})
        /\ \A i \in 1..Len(InRows) :
             \A j \in 1..Len(heap[Block].kids) : heap[Block].kids[j] # InRows[i]

\* a second call on a rendered block (an anchor around a picture) left one
\* picture as the only child
C9_Witness ==
  /\ calls = 2
  /\ Len(InRows) = 1 /\ pre[InRows[1]].tag = "a"
  /\ Children(heap, Block) # <<>>
  /\ heap[Children(heap, Block)[1]].tag = "picture"

\* C10: once a decorate call has left the block in the error state, every
\* later call leaves it in the error state with the same text.
ErrorState == ErrorShape(heap)
C10_ErrorAbsorbing ==
  [][(Called /\ ErrorState) => ErrorState']_vars

\* a call that found the block in the error state and left it there
C10_Witness ==
  /\ calls >= 2
  /\ ErrorShape(pre)
  /\ last.outcome = "error"
  /\ ErrorShape(heap)

=============================================================================
